---- MODULE Spec2Model ----
(***************************************************************************)
(* Poly1305 one-time authenticator (package poly1305): the streaming       *)
(* engine polyHash (New, Write, Sum, Reset) and its field arithmetic       *)
(* (initialize, update, finish) over five 26-bit limbs.                    *)
(*                                                                         *)
(* Go's uint32 and uint64 values do not fit TLC's integers, so every       *)
(* machine word is a natural number written as a little-endian sequence    *)
(* of base-2^13 digits without trailing zero digits (<<>> is 0).  The      *)
(* operators of the first section are exact arithmetic on such numbers;    *)
(* a word operation of the code is the exact operation followed by the     *)
(* truncation to the word's width (U32, U64).                              *)
(***************************************************************************)
EXTENDS Integers, Sequences, FiniteSets, TLC

----------------------------------------------------------------------------
(* Exact natural-number arithmetic on digit sequences.                     *)

\* limbs are 26 bits wide (the mask 0x3ffffff and the shifts by 26 of update)
LimbBits == 26

\* a digit is half a limb
DigitBits == LimbBits \div 2
Base == 2 ^ DigitBits

Dig(a, i) == IF i <= Len(a) THEN a[i] ELSE 0

RECURSIVE Norm(_)
Norm(a) ==
    IF a = <<>> THEN a
    ELSE IF a[Len(a)] = 0 THEN Norm(SubSeq(a, 1, Len(a) - 1))
    ELSE a

RECURSIVE FromNat(_)
FromNat(n) == IF n = 0 THEN <<>> ELSE <<n % Base>> \o FromNat(n \div Base)

RECURSIVE AddFrom(_, _, _, _)
AddFrom(a, b, i, c) ==
    IF i > Len(a) /\ i > Len(b)
    THEN (IF c = 0 THEN <<>> ELSE <<c>>)
    ELSE LET s == Dig(a, i) + Dig(b, i) + c
         IN  <<s % Base>> \o AddFrom(a, b, i + 1, s \div Base)

BAdd(a, b) == AddFrom(a, b, 1, 0)

\* a - b for a >= b
RECURSIVE SubFrom(_, _, _, _)
SubFrom(a, b, i, c) ==
    IF i > Len(a) THEN <<>>
    ELSE LET s == a[i] - Dig(b, i) - c
         IN  IF s < 0 THEN <<s + Base>> \o SubFrom(a, b, i + 1, 1)
             ELSE <<s>> \o SubFrom(a, b, i + 1, 0)

BSub(a, b) == Norm(SubFrom(a, b, 1, 0))

\* a < b, both without trailing zero digits
RECURSIVE LtFrom(_, _, _)
LtFrom(a, b, i) ==
    IF i = 0 THEN FALSE
    ELSE IF a[i] # b[i] THEN a[i] < b[i]
    ELSE LtFrom(a, b, i - 1)

BLt(a, b) ==
    IF Len(a) # Len(b) THEN Len(a) < Len(b) ELSE LtFrom(a, b, Len(a))

\* a * k for a small k (k < 2^17)
RECURSIVE MulSmallFrom(_, _, _, _)
MulSmallFrom(a, k, i, c) ==
    IF i > Len(a) THEN FromNat(c)
    ELSE LET s == a[i] * k + c
         IN  <<s % Base>> \o MulSmallFrom(a, k, i + 1, s \div Base)

BMulSmall(a, k) == Norm(MulSmallFrom(a, k, 1, 0))

Zeros(n) == [i \in 1..n |-> 0]

RECURSIVE MulFrom(_, _, _)
MulFrom(a, b, i) ==
    IF i > Len(b) THEN <<>>
    ELSE BAdd(Norm(Zeros(i - 1) \o BMulSmall(a, b[i])), MulFrom(a, b, i + 1))

BMul(a, b) == IF a = <<>> \/ b = <<>> THEN <<>> ELSE MulFrom(a, b, 1)

\* a \div k for a small k, from the top digit down (i = Len(a) .. 1), rem the
\* remainder carried into digit i
RECURSIVE DivSmallFrom(_, _, _, _)
DivSmallFrom(a, k, i, rem) ==
    IF i = 0 THEN <<>>
    ELSE LET s == rem * Base + a[i]
         IN  DivSmallFrom(a, k, i - 1, s % k) \o <<s \div k>>

BDivSmall(a, k) == Norm(DivSmallFrom(a, k, Len(a), 0))

\* a << n, a >> n and a mod 2^n, exact
Shl(a, n) ==
    IF a = <<>> THEN <<>>
    ELSE Zeros(n \div DigitBits) \o BMulSmall(a, 2 ^ (n % DigitBits))

Shr(a, n) ==
    LET d == n \div DigitBits
    IN  IF d >= Len(a) THEN <<>>
        ELSE BDivSmall(SubSeq(a, d + 1, Len(a)), 2 ^ (n % DigitBits))

Trunc(a, n) ==
    LET d == n \div DigitBits
    IN  IF Len(a) <= d THEN a
        ELSE Norm(SubSeq(a, 1, d) \o <<a[d + 1] % (2 ^ (n % DigitBits))>>)

\* bitwise and / or of two digits
RECURSIVE AndD(_, _)
AndD(x, y) ==
    IF x = 0 \/ y = 0 THEN 0
    ELSE (x % 2) * (y % 2) + 2 * AndD(x \div 2, y \div 2)

RECURSIVE OrD(_, _)
OrD(x, y) ==
    IF x = 0 THEN y
    ELSE IF y = 0 THEN x
    ELSE ((x % 2) + (y % 2) - (x % 2) * (y % 2)) + 2 * OrD(x \div 2, y \div 2)

Max(x, y) == IF x >= y THEN x ELSE y

BAnd(a, b) == Norm([i \in 1..Max(Len(a), Len(b)) |-> AndD(Dig(a, i), Dig(b, i))])

BOr(a, b) == [i \in 1..Max(Len(a), Len(b)) |-> OrD(Dig(a, i), Dig(b, i))]

Pow2(n) == Shl(<<1>>, n)

----------------------------------------------------------------------------
(* Machine words.                                                          *)

U32(a) == Trunc(a, 32)
U64(a) == Trunc(a, 64)

\* a - b in uint32 (wraps below zero), for a, b < 2^32
Sub32(a, b) == U32(BAdd(a, BSub(Pow2(32), b)))

\* ^a in uint32
Not32(a) == BSub(BSub(Pow2(32), <<1>>), a)

\* the byte b (0..255) as a word, and a word below 2^13 as an integer
Word(b) == FromNat(b)
ToNat(a) == IF a = <<>> THEN 0 ELSE a[1]

\* a & 0x3ffffff: the low 26 bits of a
And26(a) == Trunc(a, LimbBits)

\* uint32(s[i]) | uint32(s[i+1])<<8 | uint32(s[i+2])<<16 | uint32(s[i+3])<<24,
\* i counted from 0 as in the code; the four bytes lie on disjoint bits, so
\* the OR of them is their sum
Load32(s, i) ==
    BAdd(FromNat(s[i + 1] + (2 ^ 8) * s[i + 2] + (2 ^ 16) * s[i + 3]),
         Shl(Word(s[i + 4]), 24))

----------------------------------------------------------------------------
(* Constants of the package.                                               *)

TagSize == 16

\* uint32(1 << 24) and uint32(0)
msgBlock == Pow2(24)
finalBlock == <<>>

\* init() ends with the unconditional littleEndian = false, so the
\* unsafe-pointer branches of initialize, update and finish never run
littleEndian == FALSE

----------------------------------------------------------------------------
(* initialize: the clamped r (five limbs) and pad (four words) of a key.   *)

initialize(key) ==
    [r   |-> << BAnd(Load32(key, 0), FromNat(67108863)),             \* 0x3ffffff
                BAnd(Shr(Load32(key, 3), 2), FromNat(67108611)),     \* 0x3ffff03
                BAnd(Shr(Load32(key, 6), 4), FromNat(67092735)),     \* 0x3ffc0ff
                BAnd(Shr(Load32(key, 9), 6), FromNat(66076671)),     \* 0x3f03fff
                BAnd(Shr(Load32(key, 12), 8), FromNat(1048575)) >>,  \* 0x00fffff
     pad |-> << Load32(key, 16), Load32(key, 20), Load32(key, 24), Load32(key, 28) >>]

----------------------------------------------------------------------------
(* update: h += block; h *= r; h %= p, for each 16-byte block of msg.      *)
(* The result is [h, wrap]: the new limbs, and whether some uint32 or      *)
(* uint64 result of the computation lost bits (its exact value did not     *)
(* fit the word).  Limbs and columns are numbered from 0 in the code and   *)
(* from 1 here.                                                            *)

\* the exact sum of the numbers of the sequence xs
RECURSIVE SumOf(_)
SumOf(xs) == IF xs = <<>> THEN <<>> ELSE BAdd(Head(xs), SumOf(Tail(xs)))

\* each word of ws cut to 32 bits, to 64 bits
Words32(ws) == [j \in 1..Len(ws) |-> U32(ws[j])]
Words64(ws) == [j \in 1..Len(ws) |-> U64(ws[j])]

\* the five 26-bit limbs of the block msg[i .. i+15], flag in the top limb
blockLimbs(msg, i, flag) ==
    << And26(Load32(msg, i)),
       And26(Shr(Load32(msg, i + 3), 2)),
       And26(Shr(Load32(msg, i + 6), 4)),
       And26(Shr(Load32(msg, i + 9), 6)),
       BOr(Shr(Load32(msg, i + 12), 8), flag) >>

\* h += m, the exact sums
addBlock(h, b) == [j \in 1..5 |-> BAdd(h[j], b[j])]

\* r[j]*5, the exact products (s1..s4 of the code are those of r[1]..r[4])
times5(r) == [j \in 1..5 |-> BMulSmall(r[j], 5)]

\* factor without the scaling by 5 of the terms that wrap past 2^130
factorUnscaled(r, s, k, j) == IF j <= k THEN r[k - j + 1] ELSE r[5 + k - j + 1]

\* the factor of limb j in column k: d_k has the terms h_j * r_(k-j) for
\* j <= k and h_j * s_(5+k-j) for j > k
factor(r, s, k, j) == IF j <= k THEN r[k - j + 1] ELSE s[5 + k - j + 1]

\* the exact sum of column k: the carry of the column before it and the
\* five products
column(hh, r, s, k, carry) ==
    SumOf(<< carry >> \o [j \in 1..5 |-> BMul(hh[j], factor(r, s, k, j))])

\* d0..d4 one after the other, as exact sums; the carry into the next
\* column is (d >> 26) of the sum cut to uint64
RECURSIVE columns(_, _, _, _, _, _)
columns(hh, r, s, k, carry, acc) ==
    IF k > 5 THEN acc
    ELSE LET e == column(hh, r, s, k, carry)
         IN  columns(hh, r, s, k + 1, Shr(U64(e), 26), Append(acc, e))

\* h %= p: uint32(d4>>26) * 5, then h0 and h1 after their +=, exact
topTimes5(d) == BMulSmall(U32(Shr(d[5], 26)), 5)
limb0(d) == BAdd(And26(U32(d[1])), U32(topTimes5(d)))
limb1(d) == BAdd(And26(U32(d[2])), Shr(U32(limb0(d)), 26))

reduce(d) ==
    << And26(U32(limb0(d))),
       U32(limb1(d)),
       And26(U32(d[3])),
       And26(U32(d[4])),
       And26(U32(d[5])) >>

reduceWraps(d) ==
    \/ U32(Shr(d[5], 26)) # Shr(d[5], 26)
    \/ U32(topTimes5(d)) # topTimes5(d)
    \/ U32(limb0(d)) # limb0(d)
    \/ U32(limb1(d)) # limb1(d)

\* one pass of the loop body, on the block msg[i .. i+15] (i from 0)
updateBlock(msg, i, flag, h, r) ==
    LET a  == addBlock(h, blockLimbs(msg, i, flag))
        x  == times5(r)
        e  == columns(Words32(a), r, Words32(x), 1, <<>>, <<>>)
    IN  [h    |-> reduce(Words64(e)),
         wrap |-> \/ Words32(a) # a
                  \/ Words32(x) # x
                  \/ Words64(e) # e
                  \/ reduceWraps(Words64(e))]

\* the loop: for i := 0; i < len(msg); i += TagSize
RECURSIVE updateFrom(_, _, _, _, _, _)
updateFrom(msg, i, flag, h, r, wrap) ==
    IF i >= Len(msg) THEN [h |-> h, wrap |-> wrap]
    ELSE LET u == updateBlock(msg, i, flag, h, r)
         IN  IF u.wrap
             THEN updateFrom(msg, i + TagSize, flag, u.h, r, TRUE)
             ELSE updateFrom(msg, i + TagSize, flag, u.h, r, wrap)

update(msg, flag, h, r) == updateFrom(msg, 0, flag, h, r, FALSE)

----------------------------------------------------------------------------
(* finish: carry h, subtract p if h >= p, pack, add pad, encode.           *)

\* x[j+1] += x[j] >> 26; x[j] &= 0x3ffffff
carryStep(x, j) ==
    [x EXCEPT ![j + 1] = U32(BAdd(x[j + 1], Shr(x[j], 26))), ![j] = And26(x[j])]

\* x[1] += 5 * (x[5] >> 26); x[5] &= 0x3ffffff
wrapTop(x) ==
    [x EXCEPT ![1] = U32(BAdd(x[1], U32(BMulSmall(Shr(x[5], 26), 5)))),
              ![5] = And26(x[5])]

\* "fully carry h": limb 1 into 2, 2 into 3, 3 into 4, the top back into
\* limb 0 times 5, and limb 0 into 1
fullCarry(h) == carryStep(wrapTop(carryStep(carryStep(carryStep(h, 2), 3), 4)), 1)

\* g[5] -= 1 << 26, in uint32
subTop(g) == [g EXCEPT ![5] = Sub32(g[5], Pow2(26))]

\* "h + -p": g = h + 5 carried through the limbs, less 2^130
plusMinusP(h) ==
    subTop(carryStep(carryStep(carryStep(carryStep(
        [h EXCEPT ![1] = U32(BAdd(h[1], <<5>>))], 1), 2), 3), 4))

\* a mask that is 0 whatever g4 is: h - p is never selected
selectMaskZero(g4) == BAnd(g4, <<>>)

\* mask := (g4 >> (32 - 1)) - 1
selectMask(g4) == Sub32(Shr(g4, 32 - 1), <<1>>)

\* "select h if h < p else h + -p": g &= mask; h = (h & ^mask) | g
selectBy(h, g, mask) ==
    [j \in 1..5 |-> BOr(BAnd(h[j], Not32(mask)), BAnd(g[j], mask))]

select(h, g) == selectBy(h, g, selectMask(g[5]))

\* "h %= 2^128": the five limbs as four 32-bit words
pack(h) ==
    << BOr(h[1], U32(Shl(h[2], 26))),
       BOr(Shr(h[2], 6), U32(Shl(h[3], 20))),
       BOr(Shr(h[3], 12), U32(Shl(h[4], 14))),
       BOr(Shr(h[4], 18), U32(Shl(h[5], 8))) >>

\* "tag = (h + pad) % (2^128)": f = uint64(h[j]) + uint64(pad[j]) + (f >> 32),
\* word j of the result is uint32(f)
RECURSIVE addPad(_, _, _, _, _)
addPad(w, pad, j, f, acc) ==
    IF j > 4 THEN acc
    ELSE LET g == BAdd(BAdd(w[j], pad[j]), Shr(f, 32))
         IN  addPad(w, pad, j + 1, g, Append(acc, U32(g)))

\* byte(w >> n)
ByteOf(w, n) == ToNat(Trunc(Shr(w, n), 8))

\* the four words as 16 bytes, little-endian
encode(w) == [i \in 1..TagSize |-> ByteOf(w[((i - 1) \div 4) + 1], 8 * ((i - 1) % 4))]

\* the limbs after fullCarry, reduced below p
reduceP(hc) == select(hc, plusMinusP(hc))

finish(h, pad) == encode(addPad(pack(reduceP(fullCarry(h))), pad, 1, <<>>, <<>>))

----------------------------------------------------------------------------
(* The engine polyHash and its methods, as functions of the struct p =     *)
(* [h, r, pad, buf, off].                                                  *)

ZeroLimbs == << <<>>, <<>>, <<>>, <<>>, <<>> >>
ZeroBuf == [i \in 1..TagSize |-> 0]

\* a test that lets keys longer than 32 bytes through
keySizeAtLeast(k) == Len(k) >= 32

\* New's test of the key length
keySizeOk(k) == Len(k) = 32

\* p := new(polyHash); initialize(&(p.r), &(p.pad), &k)
newHash(k) ==
    LET kp == initialize(k)
    IN  [h |-> ZeroLimbs, r |-> kp.r, pad |-> kp.pad, buf |-> ZeroBuf, off |-> 0]

\* copy(dst[at:], src): dst with its bytes from index at (from 0) on
\* overwritten by the first min(len(dst) - at, len(src)) bytes of src
copyInto(dst, at, src) ==
    [i \in 1..Len(dst) |->
        IF i > at /\ i - at <= Len(src) THEN src[i - at] ELSE dst[i]]

Min(x, y) == IF x <= y THEN x ELSE y

\* fillBuf without "p.off = 0" after the fold of the full buffer
fillBufKeepsOff(p, head) ==
    LET nbuf == copyInto(p.buf, p.off, head)
        noff == p.off + Min(TagSize - p.off, Len(head))
    IN  IF noff = TagSize
        THEN [p EXCEPT !.buf = nbuf, !.off = noff,
                       !.h = update(nbuf, msgBlock, p.h, p.r).h]
        ELSE [p EXCEPT !.buf = nbuf, !.off = noff]

\* the branch "if p.off > 0" of Write, up to the reslicing of msg: the
\* buffer takes msg[:diff] and, once full, is folded and emptied
fillBuf(p, head) ==
    LET nbuf == copyInto(p.buf, p.off, head)
        noff == p.off + Min(TagSize - p.off, Len(head))
    IN  IF noff = TagSize
        THEN [p EXCEPT !.buf = nbuf, !.off = 0,
                       !.h = update(nbuf, msgBlock, p.h, p.r).h]
        ELSE [p EXCEPT !.buf = nbuf, !.off = noff]

\* the rest of Write, on the bytes msg left after the buffer was served:
\* whole blocks are folded from msg, the tail goes to the buffer
writeRest(p, msg) ==
    LET length == Len(msg) - (Len(msg) % TagSize)     \* len(msg) & ^(TagSize-1)
        p1 == IF length > 0
              THEN [p EXCEPT !.h = update(SubSeq(msg, 1, length), msgBlock, p.h, p.r).h]
              ELSE p
        tail == SubSeq(msg, length + 1, Len(msg))
    IN  IF Len(tail) > 0
        THEN [p1 EXCEPT !.buf = copyInto(p1.buf, p1.off, tail),
                        !.off = p1.off + Min(TagSize - p1.off, Len(tail))]
        ELSE p1

\* Write(msg) on the slice msg = data[0:len], whose capacity is Len(data).
\* The result is the struct left behind and either the return value n or
\* the run-time panic of a slice expression out of range.
Write(p, data, len) ==
    LET diff == TagSize - p.off
    IN  IF p.off > 0
        THEN IF diff > Len(data)
             THEN \* msg[:diff] beyond the capacity
                  [p |-> p, panic |-> TRUE, n |-> 0]
             ELSE LET p1 == fillBuf(p, SubSeq(data, 1, diff))
                  IN  IF diff > len
                      THEN \* msg[diff:] with diff > len(msg)
                           [p |-> p1, panic |-> TRUE, n |-> 0]
                      ELSE [p |-> writeRest(p1, SubSeq(data, diff + 1, len)),
                            panic |-> FALSE, n |-> len]
        ELSE [p |-> writeRest(p, SubSeq(data, 1, len)), panic |-> FALSE, n |-> len]

\* the padded last block of Sum: buf[off] = 1, zeros after it
padBuf(buf, off) ==
    [i \in 1..TagSize |-> IF i <= off THEN buf[i] ELSE IF i = off + 1 THEN 1 ELSE 0]

\* Sum without the test "if p0.off > 0": the padded buffer is folded always
sumCopyAlwaysFolds(p) ==
    [p0  |-> [p EXCEPT !.buf = padBuf(p.buf, p.off),
                       !.h = update(padBuf(p.buf, p.off), finalBlock, p.h, p.r).h],
     mac |-> finish(update(padBuf(p.buf, p.off), finalBlock, p.h, p.r).h, p.pad)]

\* Sum works on the copy p0 := *p; the result is the copy after the last
\* fold and the 16 bytes of mac
sumCopy(p) ==
    LET p0 == IF p.off > 0
              THEN [p EXCEPT !.buf = padBuf(p.buf, p.off),
                             !.h = update(padBuf(p.buf, p.off), finalBlock, p.h, p.r).h]
              ELSE p
    IN  [p0 |-> p0, mac |-> finish(p0.h, p0.pad)]

----------------------------------------------------------------------------
(* The caller: one engine, made by New and then driven by Write, Sum and   *)
(* Reset.  The caller holds a message m and writes it front to back in     *)
(* slices of any length.                                                   *)

\* the longest message the caller writes
MaxMsgLen == 33

\* keys: the key of RFC 8439 section 2.5.2, the key of all ones (the
\* largest clamped r and the largest pad) and the key of all zeros (RFC 8439
\* appendix A.3, test vector 1: r = 0 and pad = 0)
KeyRFC ==
    << 133, 214, 190, 120, 87, 85, 109, 51, 127, 68, 82, 254, 66, 213, 6, 168,
       1, 3, 128, 138, 251, 13, 178, 253, 74, 191, 246, 175, 65, 73, 245, 27 >>
KeyOnes == [i \in 1..32 |-> 255]
KeyZero == [i \in 1..32 |-> 0]
Keys == {KeyRFC, KeyZero}

\* arguments of New of a wrong length
BadKeys == {[i \in 1..n |-> 255] : n \in {0, 31, 33, 64}}

\* the caller's message: bytes that do not repeat within a block, so that
\* a byte folded at the wrong place changes the tag
MsgMixed == [i \in 1..MaxMsgLen |-> (i * 37 + 11) % 256]
Messages == {MsgMixed}

VARIABLES
    pc,       \* "start" before New, "ready" with an engine, "failed" after
              \* New's error, "panic" after a run-time panic
    key,      \* the argument New was called with
    m,        \* the caller's message
    h, r, pad, buf, off,    \* the fields of the polyHash
    written,  \* the bytes of the Writes that returned, in order
    ret,      \* the last call and what it returned
    summed    \* "no": Sum has returned no tag; "this": it has, and only for
              \* the message written so far; "other": it has returned a tag
              \* for a message that is not the one written so far

vars == << pc, key, m, h, r, pad, buf, off, written, ret, summed >>

engine == [h |-> h, r |-> r, pad |-> pad, buf |-> buf, off |-> off]

setEngine(p) ==
    /\ h' = p.h
    /\ r' = p.r
    /\ pad' = p.pad
    /\ buf' = p.buf
    /\ off' = p.off

Ret(op, arg, n, err, out, panic) ==
    [op |-> op, arg |-> arg, n |-> n, err |-> err, out |-> out, panic |-> panic]

Init ==
    /\ pc = "start"
    /\ key = <<>>
    /\ m \in Messages
    /\ h = ZeroLimbs
    /\ r = ZeroLimbs
    /\ pad = << <<>>, <<>>, <<>>, <<>> >>
    /\ buf = ZeroBuf
    /\ off = 0
    /\ written = <<>>
    /\ ret = Ret("none", 0, 0, "nil", <<>>, FALSE)
    /\ summed = "no"

\* New(key): a KeySizeError carrying len(key) and no engine, or the engine
CallNew ==
    \E k \in Keys \cup BadKeys :
        /\ pc = "start"
        /\ key' = k
        /\ IF keySizeOk(k)
           THEN /\ setEngine(newHash(k))
                /\ pc' = "ready"
                /\ ret' = Ret("New", Len(k), 0, "nil", <<>>, FALSE)
           ELSE /\ UNCHANGED << h, r, pad, buf, off >>
                /\ pc' = "failed"
                /\ ret' = Ret("New", Len(k), 0, << "KeySizeError", Len(k) >>, <<>>, FALSE)
        /\ UNCHANGED << m, written, summed >>

\* p.Write(msg) with msg the next n bytes of m: the slice m[pos:pos+n],
\* whose capacity reaches the end of m, or a copy of exactly n bytes
CallWrite ==
    \E n \in 0..(MaxMsgLen - Len(written)), whole \in BOOLEAN :
        /\ pc = "ready"
        /\ \E w \in {Write(engine,
                           SubSeq(m, Len(written) + 1,
                                  IF whole THEN Len(m) ELSE Len(written) + n),
                           n)} :
            /\ setEngine(w.p)
            /\ pc' = IF w.panic THEN "panic" ELSE "ready"
            /\ written' = IF w.panic THEN written
                          ELSE written \o SubSeq(m, Len(written) + 1, Len(written) + n)
            /\ ret' = Ret("Write", n, w.n, "nil", <<>>, w.panic)
            /\ summed' = IF summed = "this" /\ ~w.panic /\ n > 0 THEN "other" ELSE summed
        /\ UNCHANGED << key, m >>

\* Sum that pads and folds in the engine itself instead of the copy
CallSumInPlace ==
    /\ pc = "ready"
    /\ ret' = Ret("Sum", 0, 0, "nil", sumCopy(engine).mac, FALSE)
    /\ setEngine(sumCopy(engine).p0)
    /\ summed' = IF summed = "no" THEN "this" ELSE summed
    /\ UNCHANGED << pc, key, m, written >>

\* p.Sum(nil): the tag of what was written; the engine is not touched
CallSum ==
    /\ pc = "ready"
    /\ ret' = Ret("Sum", 0, 0, "nil", sumCopy(engine).mac, FALSE)
    /\ summed' = IF summed = "no" THEN "this" ELSE summed
    /\ UNCHANGED << pc, key, m, h, r, pad, buf, off, written >>

\* Reset that returns, with the engine as New left it
CallResetReturns ==
    /\ pc = "ready"
    /\ setEngine(newHash(key))
    /\ written' = <<>>
    /\ ret' = Ret("Reset", 0, 0, "nil", <<>>, FALSE)
    /\ UNCHANGED << pc, key, m, summed >>

\* p.Reset(): panics
CallReset ==
    /\ pc = "ready"
    /\ pc' = "panic"
    /\ ret' = Ret("Reset", 0, 0, "nil", <<>>, TRUE)
    /\ UNCHANGED << key, m, h, r, pad, buf, off, written, summed >>

Next == CallNew \/ CallWrite \/ CallSum \/ CallReset

Spec == Init /\ [][Next]_vars

----------------------------------------------------------------------------
(* The arithmetic alone: update and finish called on an accumulator that   *)
(* starts at zero, as Write and Sum call them.  h, r and pad are the       *)
(* engine's fields; written collects the blocks folded; ret is the last    *)
(* call with its arguments and result.                                     *)

\* the most full blocks folded into one accumulator
MaxFolds == 3

ArithKeys == {KeyRFC, KeyOnes, KeyZero}

\* 16-byte blocks: all ones, all zeros, mixed bytes, and top bit only
Blocks ==
    { [i \in 1..TagSize |-> 255],
      [i \in 1..TagSize |-> 0],
      [i \in 1..TagSize |-> (i * 37 + 11) % 256],
      [i \in 1..TagSize |-> IF i = TagSize THEN 128 ELSE 0] }

\* the offsets at which Sum pads the last block
FinalOffs == {1, 8, 15}

ArithRet(op, hOld, block, flag, out, wrap) ==
    [op |-> op, hOld |-> hOld, block |-> block, flag |-> flag, out |-> out,
     wrap |-> wrap]

InitArith ==
    /\ pc = "arith"
    /\ key \in ArithKeys
    /\ m = <<>>
    /\ h = ZeroLimbs
    /\ r = initialize(key).r
    /\ pad = initialize(key).pad
    /\ buf = ZeroBuf
    /\ off = 0
    /\ written = <<>>
    /\ ret = ArithRet("none", ZeroLimbs, <<>>, <<>>, <<>>, FALSE)
    /\ summed = "no"

\* update(block, msgBlock, &h, &r), as Write calls it
FoldBlock ==
    \E b \in Blocks :
        /\ pc = "arith"
        /\ Len(written) < MaxFolds * TagSize
        /\ \E u \in {update(b, msgBlock, h, r)} :
            /\ h' = u.h
            /\ ret' = ArithRet("update", h, b, msgBlock, <<>>, u.wrap)
        /\ written' = written \o b
        /\ UNCHANGED << pc, key, m, r, pad, buf, off, summed >>

\* update(buf, finalBlock, &h, &r) on the padded buffer, as Sum calls it
FoldFinal ==
    \E b \in Blocks, o \in FinalOffs :
        /\ pc = "arith"
        /\ \E u \in {update(padBuf(b, o), finalBlock, h, r)} :
            /\ h' = u.h
            /\ ret' = ArithRet("update", h, padBuf(b, o), finalBlock, <<>>, u.wrap)
        /\ written' = written \o SubSeq(b, 1, o)
        /\ pc' = "final"
        /\ UNCHANGED << key, m, r, pad, buf, off, summed >>

\* finish(&mac, &h, &pad) on the accumulator the folds left
Finish ==
    /\ pc \in {"arith", "final"}
    /\ ret' = ArithRet("finish", h, <<>>, <<>>, finish(h, pad), FALSE)
    /\ pc' = "done"
    /\ UNCHANGED << key, m, h, r, pad, buf, off, written, summed >>

\* p = 2^130 - 5
P == BSub(Pow2(130), <<5>>)

\* the values around p and 2p
Boundary == { BSub(P, <<1>>), P, BAdd(P, <<1>>), BSub(BAdd(P, P), <<1>>) }

\* x as five limbs of 26 bits, what is above 2^130 left in the top limb
limbsOf(x) ==
    << And26(x), And26(Shr(x, LimbBits)), And26(Shr(x, 2 * LimbBits)),
       And26(Shr(x, 3 * LimbBits)), Shr(x, 4 * LimbBits) >>

\* finish(&mac, &h, &pad) on the limbs of a value around p
FinishBoundary ==
    \E x \in Boundary :
        /\ pc = "arith"
        /\ written = <<>>
        /\ h' = limbsOf(x)
        /\ ret' = ArithRet("finish", limbsOf(x), <<>>, <<>>, finish(limbsOf(x), pad), FALSE)
        /\ pc' = "done"
        /\ UNCHANGED << key, m, r, pad, buf, off, written, summed >>

NextArith == FoldBlock \/ FoldFinal \/ Finish \/ FinishBoundary

SpecArith == InitArith /\ [][NextArith]_vars

----------------------------------------------------------------------------
(* The integers the limbs, words and bytes stand for.                      *)

\* sum of x[i] * 2^(w*(i-1))
RECURSIVE ValueFrom(_, _, _)
ValueFrom(x, w, i) ==
    IF i > Len(x) THEN <<>>
    ELSE BAdd(Shl(x[i], w * (i - 1)), ValueFrom(x, w, i + 1))

\* the integer value of five limbs, of four 32-bit words
LimbValue(x) == ValueFrom(x, LimbBits, 1)
WordValue(x) == ValueFrom(x, 32, 1)

\* the little-endian integer of a byte sequence
le128(b) == ValueFrom([i \in 1..Len(b) |-> Word(b[i])], 8, 1)

\* x mod p: 2^130 is 5 mod p
RECURSIVE ModP(_)
ModP(x) ==
    IF BLt(x, Pow2(130))
    THEN IF BLt(x, P) THEN x ELSE BSub(x, P)
    ELSE ModP(BAdd(Trunc(x, 130), BMulSmall(Shr(x, 130), 5)))

\* the 16 little-endian bytes of x mod 2^128
Bytes16(x) == [i \in 1..TagSize |-> ByteOf(x, 8 * (i - 1))]

\* the tag of msg under key k by one Write and one Sum on a fresh engine
OneShotTag(k, msg) == sumCopy(Write(newHash(k), msg, Len(msg)).p).mac

----------------------------------------------------------------------------
(* Properties.                                                             *)

\* C1 (chunking invariance): after a Write of any chunk on an engine made
\* by New, the Write has returned and Sum gives the tag that one Write of
\* all the bytes written so far gives on a fresh engine.
C1_ChunkingInvariance ==
    ret.op = "Write" =>
        /\ pc = "ready"
        /\ sumCopy(engine).mac = OneShotTag(key, written)

\* C2 (Write always succeeds): every Write, at any offset and of any
\* length, ends without a panic and returns (len(msg), nil).
C2_WriteAlwaysSucceeds ==
    ret.op = "Write" => ~ret.panic /\ ret.n = ret.arg /\ ret.err = "nil"

\* C3 (one-time use): once Sum has returned a tag, Sum returns no tag of
\* another message on the same engine.  Stated for the keys with r # 0;
\* with r = 0 every message has the tag pad.
C3_OneTimeUse ==
    r # ZeroLimbs =>
        ~(/\ ret.op = "Sum"
          /\ summed = "other"
          /\ ret.out = OneShotTag(key, written))

\* C4 (key size): New with a key of a length other than 32 returns the
\* KeySizeError of that length and no engine, r and pad not computed; with
\* 32 bytes it returns the engine and a nil error.
C4_KeySizeEnforced ==
    ret.op = "New" =>
        IF Len(key) = 32
        THEN pc = "ready" /\ ret.err = "nil" /\ engine = newHash(key)
        ELSE /\ pc = "failed"
             /\ ret.err = << "KeySizeError", Len(key) >>
             /\ r = ZeroLimbs
             /\ pad = << <<>>, <<>>, <<>>, <<>> >>

C4_Witness ==
    /\ ret.op = "New"
    /\ Len(key) = 64
    /\ pc = "failed"
    /\ ret.err = << "KeySizeError", 64 >>

C6_EmptyMessageTag ==
    /\ (pc = "ready" /\ written = <<>>) =>
           /\ sumCopy(engine).p0.h = ZeroLimbs
           /\ sumCopy(engine).mac = SubSeq(key, TagSize + 1, 2 * TagSize)
    /\ (ret.op = "Sum" /\ written = <<>>) =>
           ret.out = SubSeq(key, TagSize + 1, 2 * TagSize)

C6_Witness ==
    /\ ret.op = "Sum"
    /\ written = <<>>
    /\ key = KeyRFC
    /\ ret.out = SubSeq(KeyRFC, TagSize + 1, 2 * TagSize)

\* C7 (offset): after New and after every Write that returns, 0 <= off < 16.
C7_OffsetInBuffer ==
    pc = "ready" => off \in 0..(TagSize - 1)

\* a Write that fills the buffer to 16 bytes, folds it and leaves off = 0
C7_Witness ==
    /\ ret.op = "Write"
    /\ ~ret.panic
    /\ ret.arg = TagSize - 1
    /\ Len(written) = TagSize
    /\ off = 0
    /\ h # ZeroLimbs

\* C8 (fold): after update on one block B, the value of h is congruent
\* mod p to (H + le128(B) + 2^128) * R with the flag 1<<24 and to
\* (H + le128(B)) * R with the flag 0, and no uint32 or uint64 result of
\* the computation lost bits.
C8_FoldCorrect ==
    ret.op = "update" =>
        /\ ~ret.wrap
        /\ ModP(LimbValue(h)) =
               ModP(BMul(BAdd(BAdd(LimbValue(ret.hOld), le128(ret.block)),
                              IF ret.flag = msgBlock THEN Pow2(128) ELSE <<>>),
                         LimbValue(r)))

\* three full blocks of all ones folded under the largest r
C8_Witness ==
    /\ ret.op = "update"
    /\ key = KeyOnes
    /\ ret.flag = msgBlock
    /\ ret.block = [i \in 1..TagSize |-> 255]
    /\ Len(written) = MaxFolds * TagSize
    /\ ret.hOld # ZeroLimbs
    /\ ~ret.wrap

\* C9 (reduction): finish on an accumulator of value H gives the 16
\* little-endian bytes of ((H mod p) + pad) mod 2^128, for the accumulators
\* folds leave and for p-1, p, p+1 and 2p-1.
C9_FinishCorrect ==
    ret.op = "finish" =>
        ret.out = Bytes16(BAdd(ModP(LimbValue(ret.hOld)), WordValue(pad)))

\* finish on 2p-1, whose top limb is above 26 bits, with a pad that is not 0
C9_Witness ==
    /\ ret.op = "finish"
    /\ LimbValue(ret.hOld) = BSub(BAdd(P, P), <<1>>)
    /\ ret.hOld[5] = FromNat(2 ^ LimbBits + (2 ^ LimbBits - 1))
    /\ key = KeyRFC
    /\ ret.out = Bytes16(BAdd(BSub(P, <<1>>), WordValue(pad)))

\* C10 (Sum leaves the engine): Sum changes none of h, r, pad, buf, off;
\* its tag is the tag of all the bytes written so far, whatever Sums came
\* before; a Sum right after a Sum returns the same tag.
C10_SumLeavesEngine ==
    [][ret'.op = "Sum" =>
          /\ << h, r, pad, buf, off >>' = << h, r, pad, buf, off >>
          /\ ret'.out = OneShotTag(key, written)
          /\ (ret.op = "Sum" => ret'.out = ret.out)]_vars

\* the second Sum of Write(a); Sum; Write(b); Sum, with bytes in the buffer
C10_Witness ==
    /\ ret.op = "Sum"
    /\ summed = "other"
    /\ off > 0
    /\ Len(written) > TagSize
    /\ key = KeyRFC

====
